---- MODULE Spec2Model ----
(***************************************************************************)
(* HierarchicalBayesConfusionMatrix (src/main/bayesian_conf_matrix.py).    *)
(*                                                                         *)
(* The analysis object is the record `self`; `call` records the last call  *)
(* made on it (operation, arguments, raised error, returned value).        *)
(*                                                                         *)
(* Number representation.  Confidence levels and alpha are fixed-point     *)
(* numbers in units of 1/One; metric values are fixed-point numbers in     *)
(* units of 1/Scale, the four decimals that f"{x:.4f}" keeps.              *)
(*                                                                         *)
(* Ordered dictionaries are sequences of <<key, value>> pairs, in          *)
(* insertion order.  Matrices are sequences of rows.                       *)
(*                                                                         *)
(* Randomness.  A call that samples reads one of NumTapes random tapes;    *)
(* a Dirichlet vector is a vector of positive weights read from the tape   *)
(* and a multinomial sample is N trials over the cells, each choosing a    *)
(* cell by these weights.                                                  *)
(*                                                                         *)
(* The modules main.stats, main.distributions and main.format are modelled *)
(* from their specification: the metric formulas, the prior vector, the    *)
(* mean and equal-tailed interval, the flattening of the summary.          *)
(***************************************************************************)
EXTENDS Integers, Sequences, FiniteSets, TLC

(* ------------------------------ bounds --------------------------------- *)

\* largest num_classes passed to the constructor
MaxClasses == 2
\* largest number of (label, prediction) pairs in a loaded file; the
\* built-in example holds 12
MaxItems == 1
\* largest num_samples passed to estimate_posterior / sample_confusion_matrices
MaxSamples == 2
\* number of distinct outcomes of the process-wide random source per call
NumTapes == 2

(* ------------------------- number representation ----------------------- *)

\* the float 1 of `1 - confidence_level`, in units of a thousandth
One == 1000
\* f"{x:.4f}": four decimals
Scale == 10000

(* ------------------------------- errors -------------------------------- *)

\* a raised exception: its class and its message
Raised(type, msg) == [type |-> type, msg |-> msg]

\* no exception was raised
NoError == [type |-> "none", msg |-> ""]

(* ----------------------------- OrderedDict ----------------------------- *)

RECURSIVE SeqSum(_)
SeqSum(s) == IF s = <<>> THEN 0 ELSE Head(s) + SeqSum(Tail(s))

RECURSIVE FlattenRows(_)
\* ndarray.reshape(-1): the rows, one after the other
FlattenRows(m) == IF m = <<>> THEN <<>> ELSE Head(m) \o FlattenRows(Tail(m))

\* keys of an ordered dictionary, in order
OD_Keys(od) == [i \in 1..Len(od) |-> od[i][1]]

OD_Has(od, k) == \E i \in 1..Len(od) : od[i][1] = k

\* od[k]
OD_Get(od, k) == od[CHOOSE i \in 1..Len(od) : od[i][1] = k][2]

\* od[k] = v: an existing key keeps its position, a new key goes last
OD_Set(od, k, v) ==
    IF OD_Has(od, k)
    THEN [i \in 1..Len(od) |-> IF od[i][1] = k THEN <<k, v>> ELSE od[i]]
    ELSE Append(od, <<k, v>>)

RECURSIVE OD_Update_Append(_, _)
\* a broken update that appends every pair without looking for its key
OD_Update_Append(od, other) ==
    IF other = <<>> THEN od
    ELSE OD_Update_Append(Append(od, Head(other)), Tail(other))

RECURSIVE OD_Update(_, _)
\* od.update(other)
OD_Update(od, other) ==
    IF other = <<>> THEN od
    ELSE OD_Update(OD_Set(od, Head(other)[1], Head(other)[2]), Tail(other))

(* --------------------- main.stats: metric computation ------------------ *)

\* value num/den in units of 1/scale, rounded to nearest; 0 when den = 0
RatioAt(num, den, scale) ==
    IF den = 0 THEN 0 ELSE (2 * num * scale + den) \div (2 * den)

\* value num/den as a fixed-point number
Ratio(num, den) == RatioAt(num, den, Scale)

RECURSIVE ISqrtBetween(_, _, _)
ISqrtBetween(n, lo, hi) ==
    IF lo >= hi THEN lo
    ELSE LET mid == (lo + hi + 1) \div 2
         IN  IF mid * mid <= n THEN ISqrtBetween(n, mid, hi)
             ELSE ISqrtBetween(n, lo, mid - 1)

\* floor of the square root of n, 0 <= n < 2^30
ISqrt(n) == ISqrtBetween(n, 0, 32767)

MatSum(m) == SeqSum(FlattenRows(m))
RowSum(m, k) == SeqSum(m[k])
ColSum(m, k) == SeqSum([i \in 1..Len(m) |-> m[i][k]])
Diag(m) == SeqSum([k \in 1..Len(m) |-> m[k][k]])

precision_of(m, k) == Ratio(m[k][k], ColSum(m, k))
recall_of(m, k) == Ratio(m[k][k], RowSum(m, k))
\* 2 p r / (p + r) = 2 TP / (2 TP + FP + FN)
f1_of(m, k) == Ratio(2 * m[k][k], RowSum(m, k) + ColSum(m, k))
accuracy_of(m) == Ratio(Diag(m), MatSum(m))
\* from the aggregated TP, FP and FN of all classes
f1_micro_of(m) == Ratio(2 * Diag(m), 2 * Diag(m) + 2 * (MatSum(m) - Diag(m)))
\* unweighted mean of the per-class f1, summed with two guard digits
f1_macro_of(m) ==
    LET total == SeqSum([k \in 1..Len(m) |->
                    RatioAt(2 * m[k][k], RowSum(m, k) + ColSum(m, k), 100 * Scale)])
    IN  IF Len(m) = 0 THEN 0 ELSE (total + 50 * Len(m)) \div (100 * Len(m))

\* multiclass Matthews correlation coefficient, Gorodkin form
mcc_of(m) ==
    LET s == MatSum(m)
        c == Diag(m)
        pt == SeqSum([k \in 1..Len(m) |-> ColSum(m, k) * RowSum(m, k)])
        pp == SeqSum([k \in 1..Len(m) |-> ColSum(m, k) * ColSum(m, k)])
        tt == SeqSum([k \in 1..Len(m) |-> RowSum(m, k) * RowSum(m, k)])
        num == c * s - pt
        den == (s * s - pp) * (s * s - tt)
        root == ISqrt(den * 10000)
        mag == IF num < 0 THEN 0 - num ELSE num
        val == (2 * mag * 100 * Scale + root) \div (2 * root)
    IN  IF den = 0 THEN 0 ELSE IF num < 0 THEN 0 - val ELSE val

\* get_batched_confusion_matrix_stats(batch): the metrics of every matrix of
\* the batch; fails on a matrix that sums to 0
get_batched_confusion_matrix_stats(batch) ==
    IF \E b \in 1..Len(batch) : MatSum(batch[b]) = 0
    THEN [err |-> Raised("InvalidMatrix", "matrix sums to 0"), val |-> <<>>]
    ELSE [err |-> NoError,
          val |-> [accuracy  |-> [b \in 1..Len(batch) |-> accuracy_of(batch[b])],
                   f1_micro  |-> [b \in 1..Len(batch) |-> f1_micro_of(batch[b])],
                   f1_macro  |-> [b \in 1..Len(batch) |-> f1_macro_of(batch[b])],
                   mcc       |-> [b \in 1..Len(batch) |-> mcc_of(batch[b])],
                   precision |-> [b \in 1..Len(batch) |->
                                    [k \in 1..Len(batch[b]) |-> precision_of(batch[b], k)]],
                   recall    |-> [b \in 1..Len(batch) |->
                                    [k \in 1..Len(batch[b]) |-> recall_of(batch[b], k)]],
                   f1        |-> [b \in 1..Len(batch) |->
                                    [k \in 1..Len(batch[b]) |-> f1_of(batch[b], k)]]]]

\* compute_confusion_matrix(preds, labels, num_classes): cell [i][j] counts
\* the items of true class i predicted as class j (classes from 0)
compute_confusion_matrix(preds, labels, num_classes) ==
    [i \in 1..num_classes |->
        [j \in 1..num_classes |->
            Cardinality({n \in 1..Len(preds) :
                            labels[n] = i - 1 /\ preds[n] = j - 1})]]

(* ------------------ main.stats: posterior summarisation ---------------- *)

RECURSIVE Insert(_, _)
Insert(sorted, x) ==
    IF sorted = <<>> THEN <<x>>
    ELSE IF x <= Head(sorted) THEN <<x>> \o sorted
    ELSE <<Head(sorted)>> \o Insert(Tail(sorted), x)

RECURSIVE Sorted(_)
Sorted(s) == IF s = <<>> THEN <<>> ELSE Insert(Sorted(Tail(s)), Head(s))

\* the num/den empirical quantile of xs, linear interpolation between the
\* order statistics
Quantile(xs, num, den) ==
    LET srt == Sorted(xs)
        h == (Len(xs) - 1) * num
        i == h \div den
        frac == h % den
    IN  IF i + 2 > Len(srt) THEN srt[i + 1]
        ELSE srt[i + 1] + (2 * frac * (srt[i + 2] - srt[i + 1]) + den) \div (2 * den)

\* mean of xs, rounded to nearest
Mean(xs) == (2 * (SeqSum(xs) + Len(xs) * Scale) + Len(xs)) \div (2 * Len(xs)) - Scale

\* f"{x:.4f}": sign, integer part, point, four decimals
Format4(x) ==
    LET mag == IF x < 0 THEN 0 - x ELSE x
        frac == mag % Scale
        pad == IF frac < 10 THEN "000"
               ELSE IF frac < 100 THEN "00"
               ELSE IF frac < 1000 THEN "0" ELSE ""
    IN  (IF x < 0 THEN "-" ELSE "") \o ToString(mag \div Scale) \o "." \o pad
            \o ToString(frac)

\* summarize_posterior_samples(samples, alpha): the mean and the equal-tailed
\* (1 - alpha) credible interval of the samples
summarize_posterior_samples(samples, alpha) ==
    IF ~(alpha > 0 /\ alpha < One)
    THEN [err |-> Raised("InvalidConfidence", "alpha not in (0, 1)"), val |-> <<>>]
    ELSE IF Len(samples) = 0
    THEN [err |-> NoError,
          val |-> << <<"Mean", "nan">>, <<"Lower", "nan">>, <<"Upper", "nan">> >>]
    ELSE [err |-> NoError,
          val |-> << <<"Mean", Format4(Mean(samples))>>,
                     <<"Lower", Format4(Quantile(samples, alpha, 2 * One))>>,
                     <<"Upper", Format4(Quantile(samples, 2 * One - alpha, 2 * One))>> >>]

(* ------------------- main.distributions: the prior --------------------- *)

\* init_dirichlet_prior(prior, dim): dim copies of a non-negative pseudocount
init_dirichlet_prior(prior, dim) ==
    IF prior < 0
    THEN [err |-> Raised("InvalidPrior", "negative pseudocount"), val |-> <<>>]
    ELSE [err |-> NoError, val |-> [d \in 1..dim |-> prior]]

(* --------------------------- numpy.random ------------------------------ *)

\* the k-th variate of random tape `tape`, in 0..m-1
Uniform(tape, k, m) ==
    (((tape + 1) * 40503 + k * 30011 + tape * k * 1237) % 65521) % m

\* a + b on one-dimensional arrays, with numpy's broadcasting of length 1
BroadcastAdd(a, b) ==
    IF Len(a) = Len(b)
    THEN [err |-> NoError, val |-> [j \in 1..Len(a) |-> a[j] + b[j]]]
    ELSE IF Len(b) = 1
    THEN [err |-> NoError, val |-> [j \in 1..Len(a) |-> a[j] + b[1]]]
    ELSE IF Len(a) = 1
    THEN [err |-> NoError, val |-> [j \in 1..Len(b) |-> a[1] + b[j]]]
    ELSE [err |-> Raised("ValueError", "operands could not be broadcast together"),
          val |-> <<>>]

\* np.random.dirichlet(alpha, size): `size` probability vectors over the
\* cells, each given by positive weights w with p[j] = w[j] / sum(w)
dirichlet(alpha, size, tape) ==
    IF \E j \in 1..Len(alpha) : alpha[j] <= 0
    THEN [err |-> Raised("ValueError", "alpha <= 0"), val |-> <<>>]
    ELSE IF size < 0
    THEN [err |-> Raised("ValueError", "negative dimensions are not allowed"),
          val |-> <<>>]
    ELSE [err |-> NoError,
          val |-> [i \in 1..size |->
                    [j \in 1..Len(alpha) |->
                        1 + Uniform(tape, (i - 1) * Len(alpha) + j, 2 * alpha[j])]]]

RECURSIVE PickCell(_, _, _)
\* the cell whose share of the weights contains u, counting from cell j
PickCell(w, u, j) ==
    IF j >= Len(w) \/ u < w[j] THEN j ELSE PickCell(w, u - w[j], j + 1)

RECURSIVE CountTrials(_, _, _, _, _)
\* the counts per cell after trials t..n, added to `counts`
CountTrials(w, total, tape, pos, counts) ==
    IF pos[1] > pos[2] THEN counts
    ELSE LET cell == PickCell(w, Uniform(tape, pos[3] + pos[1], total), 1)
         IN  CountTrials(w, total, tape, <<pos[1] + 1, pos[2], pos[3]>>,
                         [counts EXCEPT ![cell] = @ + 1])

\* np.random.multinomial(n, pvals): n trials over the cells, counted per cell;
\* `first` is the position on the tape of the first trial
multinomial(n, w, tape, first) ==
    CountTrials(w, SeqSum(w), tape, <<1, n, first>>, [j \in 1..Len(w) |-> 0])

\* an apply_along_axis that accepts an array without rows
apply_multinomial_tolerant(n, rows, tape) ==
    [err |-> NoError,
     val |-> [i \in 1..Len(rows) |->
                multinomial(n, rows[i], tape, Len(rows) * Len(rows[i]) + (i - 1) * n)]]

\* np.apply_along_axis(partial(np.random.multinomial, n), axis=1, arr=rows)
apply_multinomial(n, rows, tape) ==
    IF Len(rows) = 0
    THEN [err |-> Raised("ValueError",
                         "Cannot apply_along_axis when any iteration dimensions are 0"),
          val |-> <<>>]
    ELSE [err |-> NoError,
          val |-> [i \in 1..Len(rows) |->
                    multinomial(n, rows[i], tape,
                                Len(rows) * Len(rows[i]) + (i - 1) * n)]]

\* arr.reshape((len(arr), k, k)) on a two-dimensional array with rows
reshape(rows, k) ==
    IF \E i \in 1..Len(rows) : Len(rows[i]) # k * k
    THEN [err |-> Raised("ValueError", "cannot reshape array"), val |-> <<>>]
    ELSE [err |-> NoError,
          val |-> [i \in 1..Len(rows) |->
                    [r \in 1..k |-> [c \in 1..k |-> rows[i][(r - 1) * k + c]]]]]

(* ----------------- HierarchicalBayesConfusionMatrix -------------------- *)

VARIABLES self, call

vars == <<self, call>>

\* no analysis object exists
NoObject ==
    [constructed |-> FALSE, num_classes |-> 0, confusion_matrix |-> <<>>,
     alpha |-> 0, N |-> 0, dirichlet_prior |-> <<>>, summary |-> <<>>]

\* no call has been made
NoCall ==
    [op |-> "none", confidence_level |-> 0, num_samples |-> 0, backend |-> "none",
     had_bounds |-> FALSE, err |-> NoError, ret |-> <<>>,
     dirichlet_draws |-> 0, multinomial_draws |-> 0]

\* raise ValueError("Confidence level has to be a float in range (0, 1)")
InvalidConfidenceLevel ==
    Raised("ValueError", "Confidence level has to be a float in range (0, 1)")

\* the matrix used when preds_fp = "example"
ExampleMatrix == << <<6, 2>>, <<1, 3>> >>

\* f"Class {l}"
ClassStr(l) == "Class " \o ToString(l)

\* OrderedDict([("Instance", f"{x:.4f}")])
Instance(x) == << <<"Instance", Format4(x)>> >>

\* the check that accepts the two ends of the range
valid_confidence_closed(confidence_level) ==
    confidence_level >= 0 /\ confidence_level <= One

\* confidence_level > 0 and confidence_level < 1
valid_confidence(confidence_level) ==
    confidence_level > 0 /\ confidence_level < One

\* the class group without its last metric
class_group_short(stats, l) ==
    << <<"Precision", Instance(stats.precision[1][l + 1])>>,
       <<"Recall", Instance(stats.recall[1][l + 1])>> >>

\* the metrics of class l, from the statistics of the observed matrix
class_group(stats, l) ==
    << <<"Precision", Instance(stats.precision[1][l + 1])>>,
       <<"Recall", Instance(stats.recall[1][l + 1])>>,
       <<"F1", Instance(stats.f1[1][l + 1])>> >>

RECURSIVE init_classes(_, _, _, _)
\* for l in range(self.num_classes): ...
init_classes(summary, stats, l, num_classes) ==
    IF l >= num_classes THEN [err |-> NoError, summary |-> summary]
    ELSE IF l + 1 > Len(stats.precision[1])
    THEN [err |-> Raised("IndexError", "index out of bounds"), summary |-> summary]
    ELSE init_classes(OD_Set(summary, ClassStr(l), class_group(stats, l)),
                      stats, l + 1, num_classes)

\* init_summary(self)
init_summary(obj) ==
    LET st == get_batched_confusion_matrix_stats(<<obj.confusion_matrix>>)
        overall ==
            << <<"Accuracy", Instance(st.val.accuracy[1])>>,
               <<"F1 (Micro)", Instance(st.val.f1_micro[1])>>,
               <<"F1 (Macro)", Instance(st.val.f1_macro[1])>>,
               <<"MCC", Instance(st.val.mcc[1])>> >>
        r == init_classes(<< <<"Overall", overall>> >>, st.val, 0, obj.num_classes)
    IN  IF st.err # NoError THEN [err |-> st.err, self |-> obj]
        ELSE [err |-> r.err, self |-> [obj EXCEPT !.summary = r.summary]]

\* N taken from the diagonal only
total_of_diagonal(confusion_matrix) == Diag(confusion_matrix)

\* np.sum(self.confusion_matrix)
total_of(confusion_matrix) == MatSum(confusion_matrix)

\* __init__(preds_fp, num_classes, dirichlet_prior, confidence_level), with
\* the predictions and labels that load_preds_and_labels reads
construct(preds_fp, preds, labels, num_classes, dirichlet_prior, confidence_level) ==
    LET confusion_matrix ==
            IF preds_fp # "example"
            THEN compute_confusion_matrix(preds, labels, num_classes)
            ELSE ExampleMatrix
        prior == init_dirichlet_prior(dirichlet_prior, num_classes * num_classes)
        obj == [constructed |-> TRUE,
                num_classes |-> num_classes,
                confusion_matrix |-> confusion_matrix,
                alpha |-> One - confidence_level,
                N |-> total_of(confusion_matrix),
                dirichlet_prior |-> prior.val,
                summary |-> <<>>]
        r == init_summary(obj)
    IN  IF ~valid_confidence(confidence_level)
        THEN [err |-> InvalidConfidenceLevel, self |-> NoObject]
        ELSE IF prior.err # NoError THEN [err |-> prior.err, self |-> NoObject]
        ELSE IF r.err # NoError THEN [err |-> r.err, self |-> NoObject]
        ELSE [err |-> NoError, self |-> r.self]

\* sample_confusion_matrices(num_samples)
sample_confusion_matrices(obj, num_samples, tape) ==
    LET conc == BroadcastAdd(FlattenRows(obj.confusion_matrix), obj.dirichlet_prior)
        dirichlet_samples == dirichlet(conc.val, num_samples, tape)
        multinomial_samples == apply_multinomial(obj.N, dirichlet_samples.val, tape)
        sampled == reshape(multinomial_samples.val, obj.num_classes)
    IN  IF conc.err # NoError
        THEN [err |-> conc.err, val |-> <<>>,
              dirichlet_draws |-> 0, multinomial_draws |-> 0]
        ELSE IF dirichlet_samples.err # NoError
        THEN [err |-> dirichlet_samples.err, val |-> <<>>,
              dirichlet_draws |-> 0, multinomial_draws |-> 0]
        ELSE IF multinomial_samples.err # NoError
        THEN [err |-> multinomial_samples.err, val |-> <<>>,
              dirichlet_draws |-> Len(dirichlet_samples.val), multinomial_draws |-> 0]
        ELSE [err |-> sampled.err, val |-> sampled.val,
              dirichlet_draws |-> Len(dirichlet_samples.val),
              multinomial_draws |-> Len(multinomial_samples.val)]

\* sampled_stats[name][:, l]
Column(arr, l) == [b \in 1..Len(arr) |-> arr[b][l + 1]]

\* sampled_stats[name][:, l] can be taken: l is a column of every row
HasColumn(arr, l) == \A b \in 1..Len(arr) : l + 1 <= Len(arr[b])

RECURSIVE class_targets(_, _, _)
\* the per-class updates of estimate_posterior, in the order of the loop
class_targets(stats, l, stop) ==
    IF l >= stop THEN <<>>
    ELSE << [group |-> ClassStr(l), metric |-> "Precision",
             arr |-> stats.precision, column |-> l],
            [group |-> ClassStr(l), metric |-> "Recall",
             arr |-> stats.recall, column |-> l],
            [group |-> ClassStr(l), metric |-> "F1",
             arr |-> stats.f1, column |-> l] >>
         \o class_targets(stats, l + 1, stop)

\* a loop over the classes that runs one class too far
class_loop_stop_late(obj) == obj.num_classes + 1

\* for l in range(self.num_classes), in estimate_posterior
class_loop_stop(obj) == obj.num_classes

\* the updates of estimate_posterior, in program order; column -1 is a
\* metric with one value per sample
targets(stats, obj) ==
    << [group |-> "Overall", metric |-> "Accuracy",
        arr |-> stats.accuracy, column |-> 0 - 1],
       [group |-> "Overall", metric |-> "F1 (Micro)",
        arr |-> stats.f1_micro, column |-> 0 - 1],
       [group |-> "Overall", metric |-> "F1 (Macro)",
        arr |-> stats.f1_macro, column |-> 0 - 1],
       [group |-> "Overall", metric |-> "MCC",
        arr |-> stats.mcc, column |-> 0 - 1] >>
    \o class_targets(stats, 0, class_loop_stop(obj))

\* self.summary[group] = OrderedDict([(metric, bounds)])
merge_reset(summary, group, metric, bounds) ==
    OD_Set(summary, group, << <<metric, bounds>> >>)

\* self.summary[group][metric] = bounds
merge_assign(summary, group, metric, bounds) ==
    OD_Set(summary, group, OD_Set(OD_Get(summary, group), metric, bounds))

\* self.summary[group][metric].update(bounds), appending without a key lookup
merge_append(summary, group, metric, bounds) ==
    OD_Set(summary, group,
           OD_Set(OD_Get(summary, group), metric,
                  OD_Update_Append(OD_Get(OD_Get(summary, group), metric), bounds)))

\* self.summary[group][metric].update(bounds)
merge(summary, group, metric, bounds) ==
    OD_Set(summary, group,
           OD_Set(OD_Get(summary, group), metric,
                  OD_Update(OD_Get(OD_Get(summary, group), metric), bounds)))

RECURSIVE apply_updates(_, _, _)
\* the updates one after the other; an error raised by one of them leaves
\* the updates made before it in place
apply_updates(summary, todo, alpha) ==
    IF todo = <<>> THEN [err |-> NoError, summary |-> summary]
    ELSE LET t == Head(todo)
             samples == IF t.column < 0 THEN t.arr ELSE Column(t.arr, t.column)
             b == summarize_posterior_samples(samples, alpha)
         IN  IF ~OD_Has(summary, t.group)
             THEN [err |-> Raised("KeyError", t.group), summary |-> summary]
             ELSE IF ~OD_Has(OD_Get(summary, t.group), t.metric)
             THEN [err |-> Raised("KeyError", t.metric), summary |-> summary]
             ELSE IF t.column >= 0 /\ ~HasColumn(t.arr, t.column)
             THEN [err |-> Raised("IndexError", "index out of bounds"),
                   summary |-> summary]
             ELSE IF b.err # NoError THEN [err |-> b.err, summary |-> summary]
             ELSE apply_updates(merge(summary, t.group, t.metric, b.val),
                                Tail(todo), alpha)

\* estimate_posterior(num_samples)
estimate_posterior(obj, num_samples, tape) ==
    LET s == sample_confusion_matrices(obj, num_samples, tape)
        st == get_batched_confusion_matrix_stats(s.val)
        r == apply_updates(obj.summary, targets(st.val, obj), obj.alpha)
    IN  IF s.err # NoError
        THEN [err |-> s.err, self |-> obj,
              dirichlet_draws |-> s.dirichlet_draws,
              multinomial_draws |-> s.multinomial_draws]
        ELSE IF st.err # NoError
        THEN [err |-> st.err, self |-> obj,
              dirichlet_draws |-> s.dirichlet_draws,
              multinomial_draws |-> s.multinomial_draws]
        ELSE [err |-> r.err, self |-> [obj EXCEPT !.summary = r.summary],
              dirichlet_draws |-> s.dirichlet_draws,
              multinomial_draws |-> s.multinomial_draws]

(* ------------------------------ rendering ------------------------------ *)

RECURSIVE flatten_stats(_, _, _)
flatten_stats(group, metric, stats) ==
    IF stats = <<>> THEN <<>>
    ELSE << <<group, metric, Head(stats)[1], Head(stats)[2]>> >>
         \o flatten_stats(group, metric, Tail(stats))

RECURSIVE flatten_metrics(_, _)
flatten_metrics(group, metrics) ==
    IF metrics = <<>> THEN <<>>
    ELSE flatten_stats(group, Head(metrics)[1], Head(metrics)[2])
         \o flatten_metrics(group, Tail(metrics))

RECURSIVE flatten_summary(_)
\* flatten_summary(summary): one record per group, metric and statistic
flatten_summary(summary) ==
    IF summary = <<>> THEN <<>>
    ELSE flatten_metrics(Head(summary)[1], Head(summary)[2])
         \o flatten_summary(Tail(summary))

\* pandas_posterior_summary(records): the table of the records
pandas_posterior_summary(records) == [format |-> "pandas", rows |-> records]

RECURSIVE dumps_items(_, _)
\* the items of a JSON object whose values are strings (depth 1) or objects
dumps_items(od, depth) ==
    IF od = <<>> THEN ""
    ELSE "\"" \o Head(od)[1] \o "\": "
         \o (IF depth = 1 THEN "\"" \o Head(od)[2] \o "\""
             ELSE "{" \o dumps_items(Head(od)[2], depth - 1) \o "}")
         \o (IF Len(od) > 1 THEN ", " ELSE "")
         \o dumps_items(Tail(od), depth)

\* json.dumps(self.summary), without the line breaks of indent=2
json_dumps(summary) ==
    [format |-> "json", rows |-> << "{" \o dumps_items(summary, 3) \o "}" >>]

\* a summarize that consumes the summary it renders
summarize_consuming(obj, backend, found) ==
    [err |-> NoError, ret |-> json_dumps(obj.summary),
     self |-> [obj EXCEPT !.summary = <<>>]]

\* summarize(backend); `found` is what find_format_backend(self.verbose) returns
summarize(obj, backend, found) ==
    LET chosen == IF backend = "None" THEN found ELSE backend
    IN  IF chosen = "pandas"
        THEN [err |-> NoError,
              ret |-> pandas_posterior_summary(flatten_summary(obj.summary)),
              self |-> obj]
        ELSE IF chosen = "json"
        THEN [err |-> NoError, ret |-> json_dumps(obj.summary), self |-> obj]
        ELSE [err |-> Raised("UnboundLocalError", "summary_table"),
              ret |-> [format |-> "none", rows |-> <<>>], self |-> obj]

(* ------------------------- shape of the summary ------------------------ *)

OverallMetrics == <<"Accuracy", "F1 (Micro)", "F1 (Macro)", "MCC">>
ClassMetrics == <<"Precision", "Recall", "F1">>

\* "Overall", "Class 0", ..., "Class K-1"
ExpectedGroups(num_classes) ==
    [g \in 1..(num_classes + 1) |-> IF g = 1 THEN "Overall" ELSE ClassStr(g - 2)]

ExpectedMetrics(group) == IF group = "Overall" THEN OverallMetrics ELSE ClassMetrics

\* the statistic names the interval estimation adds
BoundKeys == {"Lower", "Upper"}

\* the groups, and the metrics of every group, in order
GroupsAndMetrics(summary) ==
    [g \in 1..Len(summary) |-> <<summary[g][1], OD_Keys(summary[g][2])>>]

\* the groups, metrics and statistic names, in order
Structure(summary) ==
    [g \in 1..Len(summary) |->
        <<summary[g][1],
          [m \in 1..Len(summary[g][2]) |->
              <<summary[g][2][m][1], OD_Keys(summary[g][2][m][2])>>]>>]

\* the summary has statistic `stat` of `metric` in `group`
HasStat(summary, group, metric, stat) ==
    /\ OD_Has(summary, group)
    /\ OD_Has(OD_Get(summary, group), metric)
    /\ OD_Has(OD_Get(OD_Get(summary, group), metric), stat)

StatOf(summary, group, metric, stat) ==
    OD_Get(OD_Get(OD_Get(summary, group), metric), stat)

\* the groups and metrics a summary of num_classes classes must have
HasExpectedShape(summary, num_classes) ==
    /\ OD_Keys(summary) = ExpectedGroups(num_classes)
    /\ \A g \in 1..Len(summary) :
          OD_Keys(summary[g][2]) = ExpectedMetrics(summary[g][1])

\* state Observed: point estimates only
Observed(obj) ==
    /\ obj.constructed
    /\ \A g \in 1..Len(obj.summary) : \A m \in 1..Len(obj.summary[g][2]) :
          OD_Keys(obj.summary[g][2][m][2]) = <<"Instance">>

\* state PosteriorEstimated: every metric carries the interval bounds
PosteriorEstimated(obj) ==
    /\ obj.constructed
    /\ \A g \in 1..Len(obj.summary) : \A m \in 1..Len(obj.summary[g][2]) :
          \A k \in BoundKeys : OD_Has(obj.summary[g][2][m][2], k)

(* ------------------------------- inputs -------------------------------- *)

PredsFpInputs == {"example", "file"}
NumClassesInputs == 0..MaxClasses
PriorInputs == {0 - 1, 0, 1}
ConfidenceInputs == {0 - 50, 0, 950, One, One + 50}
SampleCountInputs == (0 - 1)..MaxSamples
Tapes == 0..(NumTapes - 1)
BackendInputs == {"None", "pandas", "json", "yaml"}
FoundBackends == {"pandas", "json"}

\* the (label, prediction) pairs a file can hold, for num_classes classes
DataInputs(preds_fp, num_classes) ==
    IF preds_fp = "example" THEN {<<>>}
    ELSE UNION {[1..n -> (0..(num_classes - 1)) \X (0..(num_classes - 1))] :
                    n \in 0..MaxItems}

(* ------------------------------ actions -------------------------------- *)

\* In every action r is the outcome of the call: the raised error, the
\* returned value and the object as the call leaves it.

Init == self = NoObject /\ call = NoCall

\* one construction is attempted, from argument values and a file's content
Construct ==
    /\ ~self.constructed
    /\ call.op = "none"
    /\ \E preds_fp \in PredsFpInputs, num_classes \in NumClassesInputs,
          dirichlet_prior \in PriorInputs, confidence_level \in ConfidenceInputs :
         \E data \in DataInputs(preds_fp, num_classes) :
            \E r \in {construct(preds_fp,
                                 [n \in 1..Len(data) |-> data[n][2]],
                                 [n \in 1..Len(data) |-> data[n][1]],
                                 num_classes, dirichlet_prior, confidence_level)} :
                /\ self' = r.self
                /\ call' = [NoCall EXCEPT !.op = "__init__",
                                          !.confidence_level = confidence_level,
                                          !.err = r.err]

EstimatePosterior ==
    /\ self.constructed
    /\ \E num_samples \in SampleCountInputs, tape \in Tapes :
         \E r \in {estimate_posterior(self, num_samples, tape)} :
             /\ self' = r.self
             /\ call' = [NoCall EXCEPT !.op = "estimate_posterior",
                                       !.num_samples = num_samples,
                                       !.had_bounds = PosteriorEstimated(self),
                                       !.err = r.err,
                                       !.dirichlet_draws = r.dirichlet_draws,
                                       !.multinomial_draws = r.multinomial_draws]

SampleConfusionMatrices ==
    /\ self.constructed
    /\ \E num_samples \in SampleCountInputs, tape \in Tapes :
         \E r \in {sample_confusion_matrices(self, num_samples, tape)} :
             /\ self' = self
             /\ call' = [NoCall EXCEPT !.op = "sample_confusion_matrices",
                                       !.num_samples = num_samples,
                                       !.err = r.err,
                                       !.ret = r.val,
                                       !.dirichlet_draws = r.dirichlet_draws,
                                       !.multinomial_draws = r.multinomial_draws]

Summarize ==
    /\ self.constructed
    /\ \E backend \in BackendInputs :
       \E found \in (IF backend = "None" THEN FoundBackends ELSE {"none"}) :
         \E r \in {summarize(self, backend, found)} :
             /\ self' = r.self
             /\ call' = [NoCall EXCEPT !.op = "summarize",
                                       !.backend = backend,
                                       !.err = r.err,
                                       !.ret = r.ret]

InitSummary ==
    /\ self.constructed
    /\ \E r \in {init_summary(self)} :
           /\ self' = r.self
           /\ call' = [NoCall EXCEPT !.op = "init_summary", !.err = r.err]

Next ==
    \/ Construct
    \/ EstimatePosterior
    \/ SampleConfusionMatrices
    \/ Summarize
    \/ InitSummary

Spec == Init /\ [][Next]_vars

(* ------------------------------- claims -------------------------------- *)

\* the confusion matrix of obj is square of size num_classes
SquareOfSize(m, k) == Len(m) = k /\ \A i \in 1..Len(m) : Len(m[i]) = k

\* C1: a confidence level c <= 0 or c >= 1 makes the constructor raise the
\* confidence error and no object with a summary exists; a level strictly
\* between 0 and 1 passes the check, and alpha of the object is 1 - c.
C1_ConfidenceValidated ==
    call.op = "__init__" =>
        /\ (call.confidence_level <= 0 \/ call.confidence_level >= One) =>
              /\ call.err = InvalidConfidenceLevel
              /\ ~self.constructed
              /\ self.summary = <<>>
        /\ (call.confidence_level > 0 /\ call.confidence_level < One) =>
              /\ call.err # InvalidConfidenceLevel
              /\ self.constructed => self.alpha = One - call.confidence_level

\* C1 witness: the constructor was called with confidence level 1 and raised
C1_Witness ==
    /\ call.op = "__init__"
    /\ call.confidence_level = One
    /\ call.err = InvalidConfidenceLevel

\* C1 witness of the accepting side: level 0.95 gave alpha 0.05
C1_WitnessAccepted ==
    /\ call.op = "__init__"
    /\ call.confidence_level = 950
    /\ self.constructed
    /\ self.alpha = 50

\* C2: estimate_posterior with num_samples < 1 raises a ValueError, no
\* Dirichlet or multinomial vector has been drawn and the object is as it was.
C2_SampleCountRejected ==
    [][(call'.op = "estimate_posterior" /\ call'.num_samples < 1) =>
          /\ call'.err.type = "ValueError"
          /\ call'.dirichlet_draws = 0
          /\ call'.multinomial_draws = 0
          /\ self' = self]_vars

\* C2 witness: estimate_posterior(0) was called on an object whose sampling
\* succeeds for one sample or more, and raised
C2_Witness ==
    /\ call.op = "estimate_posterior"
    /\ call.num_samples = 0
    /\ call.err.type = "ValueError"
    /\ sample_confusion_matrices(self, 1, 0).err = NoError

\* C3: a successful estimate_posterior(S), S >= 1, gives every metric of every
\* group (the four of Overall, the three of each Class l, l < K) the interval
\* bounds and leaves its "Instance" value as it was.
C3_BoundsAddedInstanceKept ==
    [][(call'.op = "estimate_posterior" /\ call'.err = NoError
            /\ call'.num_samples >= 1) =>
          /\ HasExpectedShape(self'.summary, self.num_classes)
          /\ \A g \in 1..(self.num_classes + 1) :
               LET group == ExpectedGroups(self.num_classes)[g]
               IN  \A m \in 1..Len(ExpectedMetrics(group)) :
                     LET metric == ExpectedMetrics(group)[m]
                     IN  /\ \A k \in BoundKeys :
                               HasStat(self'.summary, group, metric, k)
                         /\ HasStat(self.summary, group, metric, "Instance")
                         /\ HasStat(self'.summary, group, metric, "Instance")
                         /\ StatOf(self'.summary, group, metric, "Instance")
                              = StatOf(self.summary, group, metric, "Instance")]_vars

\* C3 witness: the first successful estimate_posterior on an object of two
\* classes, whose accuracy carries the point value and the bounds
C3_Witness ==
    /\ call.op = "estimate_posterior"
    /\ call.err = NoError
    /\ call.num_samples >= 1
    /\ ~call.had_bounds
    /\ self.num_classes = 2
    /\ HasStat(self.summary, "Overall", "Accuracy", "Instance")
    /\ HasStat(self.summary, "Class 1", "F1", "Upper")

C5_NoPartialResults ==
    [][(call'.op \in {"__init__", "estimate_posterior"} /\ call'.err # NoError) =>
          self'.summary = self.summary]_vars

\* C5 witness: estimate_posterior raised on an object that already carried
\* interval bounds, and the bounds are all there
C5_Witness ==
    /\ call.op = "estimate_posterior"
    /\ call.err # NoError
    /\ call.had_bounds
    /\ PosteriorEstimated(self)

\* C6 as stated: after construction no call of a public method changes the
\* groups and metrics or removes a statistic from a metric.
C6_NeverReset ==
    [][self.constructed =>
          /\ GroupsAndMetrics(self'.summary) = GroupsAndMetrics(self.summary)
          /\ \A g \in 1..Len(self.summary) : \A m \in 1..Len(self.summary[g][2]) :
               \A k \in 1..Len(self.summary[g][2][m][2]) :
                  HasStat(self'.summary, self.summary[g][1], self.summary[g][2][m][1],
                          self.summary[g][2][m][2][k][1])]_vars

\* C6 amended: no call changes the groups and metrics, and no call of
\* estimate_posterior, summarize or sample_confusion_matrices removes a
\* statistic from a metric; init_summary leaves the "Instance" values alone.
C6_NeverResetExceptInitSummary ==
    [][self.constructed =>
          /\ GroupsAndMetrics(self'.summary) = GroupsAndMetrics(self.summary)
          /\ call'.op = "init_summary" => Observed(self')
          /\ call'.op # "init_summary" =>
               \A g \in 1..Len(self.summary) : \A m \in 1..Len(self.summary[g][2]) :
                  \A k \in 1..Len(self.summary[g][2][m][2]) :
                     HasStat(self'.summary, self.summary[g][1],
                             self.summary[g][2][m][1],
                             self.summary[g][2][m][2][k][1])]_vars

\* C6 witness: the bounds added by an earlier call are still there after a
\* later call of another method
C6_Witness ==
    /\ call.op = "sample_confusion_matrices"
    /\ PosteriorEstimated(self)
    /\ self.num_classes >= 1

\* C7: right after a successful construction the groups are "Overall",
\* "Class 0", ..., "Class K-1" in this order, Overall holds Accuracy,
\* F1 (Micro), F1 (Macro), MCC, a class group holds Precision, Recall, F1, and
\* every metric has the single statistic "Instance".
C7_ObservedSummary ==
    (call.op = "__init__" /\ self.constructed) =>
        /\ HasExpectedShape(self.summary, self.num_classes)
        /\ Observed(self)

\* C7 witness: an object of two classes was constructed from a file
C7_Witness ==
    /\ call.op = "__init__"
    /\ self.constructed
    /\ self.num_classes = 2
    /\ self.confusion_matrix # ExampleMatrix

\* C8: the observed matrix of an object is square of size num_classes and its
\* prior has num_classes squared entries.
C8_SquareOfNumClasses ==
    self.constructed =>
        /\ SquareOfSize(self.confusion_matrix, self.num_classes)
        /\ Len(self.dirichlet_prior) = self.num_classes * self.num_classes
        /\ Len(FlattenRows(self.confusion_matrix)) = Len(self.dirichlet_prior)

\* C9: a successful estimate_posterior on an object that carries the bounds
\* leaves groups, metrics and statistic names as they were, and the object
\* carries the bounds afterwards.
C9_StructureIdempotent ==
    [][(PosteriorEstimated(self) /\ call'.op = "estimate_posterior"
            /\ call'.err = NoError) =>
          /\ Structure(self'.summary) = Structure(self.summary)
          /\ PosteriorEstimated(self')]_vars

\* C9 witness: a second successful estimate_posterior
C9_Witness ==
    /\ call.op = "estimate_posterior"
    /\ call.err = NoError
    /\ call.had_bounds
    /\ call.num_samples = 2
    /\ PosteriorEstimated(self)

\* C10: summarize, returning or raising, leaves summary, observed matrix,
\* prior, alpha and N as they were.
C10_SummarizeReadOnly ==
    [][call'.op = "summarize" =>
          /\ self'.summary = self.summary
          /\ self'.confusion_matrix = self.confusion_matrix
          /\ self'.dirichlet_prior = self.dirichlet_prior
          /\ self'.alpha = self.alpha
          /\ self'.N = self.N]_vars

\* C10 witness: a summarize that raised, on an object in state
\* PosteriorEstimated
C10_Witness ==
    /\ call.op = "summarize"
    /\ call.err # NoError
    /\ PosteriorEstimated(self)

\* C10 witness in state Observed: a summarize that returned the JSON text
C10_WitnessObserved ==
    /\ call.op = "summarize"
    /\ call.err = NoError
    /\ call.ret.format = "json"
    /\ Observed(self)

====
